---------------------------- MODULE Spec2Model ----------------------------
(***************************************************************************)
(* Model of codes/4_derive_sensitivity_indexes.py (Mai & Tolson, MVA).     *)
(*                                                                         *)
(* The script is a straight-line Python 2 program: it decodes the flat     *)
(* vector of model outputs y_MVA into the sample groups of the chosen      *)
(* method (lines 125-147), opens the output file (150), calls the          *)
(* estimator of the method and writes the report (152-189), and closes     *)
(* the file (191).  The state below is the script's global variables, the  *)
(* content of the output file and the position of the interpreter.         *)
(*                                                                         *)
(* Integers: nsets is np.int(...) and np.shape(y_MVA)[0] a Python int, so  *)
(* under Python 2 (no "division" future import, line 2) "/" is floor       *)
(* division.  np.reshape follows numpy's _fix_unknown_dimension: a         *)
(* negative entry of the new shape is the dimension to infer.              *)
(*                                                                         *)
(* lib/sobol_index.py and lib/pawn_index.py are not part of the sources at *)
(* hand; sobol_index and pawn_index are modelled from sections 4.2 and 4.3 *)
(* of the specification.                                                   *)
(***************************************************************************)
EXTENDS Integers, Sequences, FiniteSets

(***************************************************************************)
(* Bounds of the model.                                                    *)
(***************************************************************************)
MaxLen == 10
MaxNsets == 2
MaxNf == 2

VARIABLES
    method,       \* [name, Nf]: method[0] and method[1] after line 113
    nsets,        \* line 97
    y_MVA,        \* line 122: the output vector, 1-based here
    pc,           \* position of the interpreter
    npara,        \* lines 127 / 138
    model_a,      \* line 129
    model_b,      \* line 130
    model_c,      \* line 131: sequence of rows
    uncond,       \* line 140
    cond,         \* lines 141-143: [replicate][parameter][sample]
    prior,        \* content of the file named outfile before the run
    outfile,      \* content of the file named outfile (sequence of lines)
    ff,           \* "closed" or "open": the handle of lines 150 / 191
    calls,        \* estimators invoked so far
    res1,         \* si_MVA (line 154) or pawn (line 172)
    res2,         \* sti_MVA (line 154) or influential (line 172)
    ipara,        \* loop variable of lines 167 / 184, 0-based
    err           \* the exception that ended the run, if any

vars == <<method, nsets, y_MVA, pc, npara, model_a, model_b, model_c,
          uncond, cond, prior, outfile, ff, calls, res1, res2, ipara, err>>

Max(a, b) == IF a >= b THEN a ELSE b
Min(a, b) == IF a <= b THEN a ELSE b

(***************************************************************************)
(* Python 2 "/" on two ints: floor division (the divisor is positive in    *)
(* every use: nsets >= 1, nrepl >= 1).                                     *)
(***************************************************************************)
PyDiv(a, b) == a \div b

(***************************************************************************)
(* v[start:stop] of Python / numpy on a one-dimensional array: negative    *)
(* bounds count from the end, both bounds are clamped to [0, len].         *)
(***************************************************************************)
SliceIndex(i, n) == IF i < 0 THEN Max(i + n, 0) ELSE Min(i, n)

\* The stop bound taken as inclusive.
SliceInclusive(v, start, stop) ==
    LET lo == SliceIndex(start, Len(v))
        hi == SliceIndex(stop + 1, Len(v))
    IN  [k \in 1..Max(hi - lo, 0) |-> v[lo + k]]

Slice(v, start, stop) ==
    LET lo == SliceIndex(start, Len(v))
        hi == SliceIndex(stop, Len(v))
    IN  [k \in 1..Max(hi - lo, 0) |-> v[lo + k]]

(***************************************************************************)
(* The shape check of np.reshape (numpy's _fix_unknown_dimension): at most *)
(* one entry of the new shape may be negative; it is replaced by the       *)
(* dimension that makes the sizes agree, when there is one.  Otherwise the *)
(* product of the entries must be the size of the array.  A failure is the *)
(* ValueError "cannot reshape array of size ... into shape ...".           *)
(***************************************************************************)
RECURSIVE KnownSize(_, _)
KnownSize(newshape, n) ==
    IF n = 0 THEN 1
    ELSE (IF newshape[n] < 0 THEN 1 ELSE newshape[n]) * KnownSize(newshape, n - 1)

\* A reshape that does not compare the sizes.
FixUnknownDimensionUnchecked(newshape, size) ==
    [ok |-> TRUE,
     dims |-> [i \in DOMAIN newshape |->
                  IF newshape[i] < 0 THEN 0 ELSE newshape[i]]]

FixUnknownDimension(newshape, size) ==
    LET unknown == {i \in DOMAIN newshape : newshape[i] < 0}
        s_known == KnownSize(newshape, Len(newshape))
    IN  IF Cardinality(unknown) > 1
        THEN [ok |-> FALSE, dims |-> newshape]
        ELSE IF unknown # {}
        THEN IF s_known = 0 \/ size % s_known # 0
             THEN [ok |-> FALSE, dims |-> newshape]
             ELSE [ok |-> TRUE,
                   dims |-> [i \in DOMAIN newshape |->
                                IF newshape[i] < 0 THEN size \div s_known
                                ELSE newshape[i]]]
        ELSE [ok |-> size = s_known, dims |-> newshape]

(***************************************************************************)
(* np.reshape(v, [d0, d1]) and np.reshape(v, [d0, d1, d2]) of a flat       *)
(* array whose size is the product of the dimensions: C order, the last    *)
(* axis runs fastest.                                                      *)
(***************************************************************************)
\* Fortran order: the first axis runs fastest.
Reshape2Fortran(v, d0, d1) ==
    [i \in 1..d0 |-> [s \in 1..d1 |-> v[(s - 1) * d0 + i]]]

Reshape2(v, d0, d1) ==
    [i \in 1..d0 |-> [s \in 1..d1 |-> v[(i - 1) * d1 + s]]]

Reshape3(v, d0, d1, d2) ==
    [p \in 1..d0 |-> [r \in 1..d1 |-> [s \in 1..d2 |->
        v[((p - 1) * d1 + (r - 1)) * d2 + s]]]]

(***************************************************************************)
(* np.swapaxes(a, 0, 1) of an array of shape [d0, d1, ...].                *)
(***************************************************************************)
\* The shape [d1, d0] without moving the data: a second reshape in place of
\* the swap.
SwapAxesAsReshape(a, d0, d1) ==
    [r \in 1..d1 |-> [p \in 1..d0 |->
        a[(((r - 1) * d0 + (p - 1)) \div d1) + 1]
         [(((r - 1) * d0 + (p - 1)) % d1) + 1]]]

SwapAxes(a, d0, d1) ==
    [r \in 1..d1 |-> [p \in 1..d0 |-> a[p][r]]]

(***************************************************************************)
(* The branch taken by the if / elif / else on method[0], at the layout    *)
(* decoding (lines 125, 133, 145) and at the estimation (152, 170, 187).   *)
(***************************************************************************)
\* An unknown tag falls back to the default method of line 71.
LayoutBranchDefault(name) ==
    IF name = "pawn" THEN "pawn" ELSE "sobol"

LayoutBranch(name) ==
    IF name = "sobol" THEN "sobol"
    ELSE IF name = "pawn" THEN "pawn"
    ELSE "else"

EstimateBranch(name) ==
    IF name = "sobol" THEN "sobol"
    ELSE IF name = "pawn" THEN "pawn"
    ELSE "else"

(***************************************************************************)
(* The slice bound of the conditional samples, line 141.                   *)
(***************************************************************************)
CondStop(n, nrepl, np) == n + nrepl * n * (np + 3)

NoError == [type |-> "none", line |-> 0]

(***************************************************************************)
(* Inputs.  The output vector is either the ramp 1, 2, ..., L (every       *)
(* element names its own index) or a constant vector (zero variance).      *)
(***************************************************************************)
Ramp(L) == [i \in 1..L |-> i]
Const(L) == [i \in 1..L |-> 1]

Methods ==
    {[name |-> "sobol", Nf |-> 0], [name |-> "morris", Nf |-> 0]}
    \cup {[name |-> "pawn", Nf |-> n] : n \in 1..MaxNf}

OldContent == <<"# old \n">>

Init ==
    /\ method \in Methods
    /\ nsets \in 1..MaxNsets
    /\ \E L \in 0..MaxLen : y_MVA \in {Ramp(L), Const(L)}
    /\ pc = "decode"
    /\ npara = 0
    /\ model_a = <<>>
    /\ model_b = <<>>
    /\ model_c = <<>>
    /\ uncond = <<>>
    /\ cond = <<>>
    /\ prior \in {<<>>, OldContent}
    /\ outfile = prior
    /\ ff = "closed"
    /\ calls = <<>>
    /\ res1 = <<>>
    /\ res2 = <<>>
    /\ ipara = 0
    /\ err = NoError

(***************************************************************************)
(* Lines 125-147: derive npara and the sample groups.                      *)
(***************************************************************************)
DeriveLayout ==
    /\ pc = "decode"
    /\ LET L == Len(y_MVA)
           branch == LayoutBranch(method.name)
       IN  CASE branch = "sobol" ->
                 LET np == PyDiv(L, nsets) - 2
                     rest == Slice(y_MVA, 2 * nsets, L)
                     shp == FixUnknownDimension(<<np, nsets>>, Len(rest))
                 IN  /\ npara' = np
                     /\ model_a' = Slice(y_MVA, 0, nsets)
                     /\ model_b' = Slice(y_MVA, nsets, 2 * nsets)
                     /\ IF shp.ok
                        THEN /\ model_c' = Reshape2(rest, shp.dims[1], shp.dims[2])
                             /\ pc' = "open"
                             /\ err' = err
                        ELSE /\ model_c' = model_c
                             /\ pc' = "error"
                             /\ err' = [type |-> "ValueError", line |-> 131]
                     /\ UNCHANGED <<uncond, cond>>
             [] branch = "pawn" ->
                 LET nrepl == method.Nf
                     np == PyDiv(L - nsets, nrepl * nsets)
                     part == Slice(y_MVA, nsets, CondStop(nsets, nrepl, np))
                     shp == FixUnknownDimension(<<np, nrepl, nsets>>, Len(part))
                 IN  /\ npara' = np
                     /\ uncond' = Slice(y_MVA, 0, nsets)
                     /\ IF shp.ok
                        THEN /\ cond' = SwapAxes(Reshape3(part, shp.dims[1],
                                                          shp.dims[2], shp.dims[3]),
                                                 shp.dims[1], shp.dims[2])
                             /\ pc' = "open"
                             /\ err' = err
                        ELSE /\ cond' = cond
                             /\ pc' = "error"
                             /\ err' = [type |-> "ValueError", line |-> 141]
                     /\ UNCHANGED <<model_a, model_b, model_c>>
             [] OTHER ->
                 /\ pc' = "error"
                 /\ err' = [type |-> "ValueError", line |-> 147]
                 /\ UNCHANGED <<npara, model_a, model_b, model_c, uncond, cond>>
    /\ UNCHANGED <<method, nsets, y_MVA, prior, outfile, ff, calls,
                   res1, res2, ipara>>

(***************************************************************************)
(* Line 150: open(outfile, "w") creates the file or truncates it.          *)
(***************************************************************************)
OpenOutfile ==
    /\ pc = "open"
    /\ outfile' = <<>>
    /\ ff' = "open"
    /\ pc' = "estimate"
    /\ UNCHANGED <<method, nsets, y_MVA, npara, model_a, model_b, model_c,
                   uncond, cond, prior, calls, res1, res2, ipara, err>>

(***************************************************************************)
(* The estimators, from sections 4.2 and 4.3 of the specification.  An     *)
(* estimator yields the set of its possible outcomes: an error, or one     *)
(* record per parameter, the parameters being the rows of yc (Sobol) or    *)
(* the parameter axis of cond (PAWN).  The index values themselves are     *)
(* drawn from a small set of records; 0 and 1 stand for the floats 0.0 and *)
(* 1.0.  The sample size at which the Kolmogorov-Smirnov test of PAWN is   *)
(* refused depends on alpha and is left open.                              *)
(***************************************************************************)
SobolRecords == {<<0, 1>>, <<1, 0>>}
PawnRecords == {<<0, FALSE>>, <<1, TRUE>>}

Degenerate(pool) == \A i, j \in DOMAIN pool : pool[i] = pool[j]

Failure(type) == [error |-> type, r1 |-> <<>>, r2 |-> <<>>]

Tables(n, records) ==
    {[error |-> "none",
      r1 |-> [i \in 1..n |-> t[i][1]],
      r2 |-> [i \in 1..n |-> t[i][2]]] : t \in [1..n -> records]}

sobol_index(ya, yb, yc) ==
    IF \E i \in DOMAIN yc : Len(yc[i]) # Len(ya)
    THEN {Failure("ShapeError")}
    ELSE IF Degenerate(ya \o yb)
    THEN {Failure("DegenerateSampleError")}
    ELSE Tables(Len(yc), SobolRecords)

pawn_index(uc, cd) ==
    IF \E r \in DOMAIN cd : \E p \in DOMAIN cd[r] : Len(cd[r][p]) = 0
    THEN {Failure("ShapeError")}
    ELSE {Failure("InsufficientSampleError")}
         \cup Tables(Len(cd[1]), PawnRecords)

(***************************************************************************)
(* Lines 152-164, 170-181, 187-189: the second dispatch on method[0] and   *)
(* the call of the estimator.                                              *)
(***************************************************************************)
Estimate ==
    /\ pc = "estimate"
    /\ LET branch == EstimateBranch(method.name)
       IN  CASE branch = "sobol" ->
                 \E o \in sobol_index(model_a, model_b, model_c) :
                    /\ calls' = Append(calls, "sobol_index")
                    /\ IF o.error = "none"
                       THEN /\ res1' = o.r1
                            /\ res2' = o.r2
                            /\ pc' = "header"
                            /\ err' = err
                       ELSE /\ pc' = "error"
                            /\ err' = [type |-> o.error, line |-> 154]
                            /\ UNCHANGED <<res1, res2>>
             [] branch = "pawn" ->
                 \E o \in pawn_index(uncond, cond) :
                    /\ calls' = Append(calls, "pawn_index")
                    /\ IF o.error = "none"
                       THEN /\ res1' = o.r1
                            /\ res2' = o.r2
                            /\ pc' = "header"
                            /\ err' = err
                       ELSE /\ pc' = "error"
                            /\ err' = [type |-> o.error, line |-> 172]
                            /\ UNCHANGED <<res1, res2>>
             [] OTHER ->
                 /\ pc' = "error"
                 /\ err' = [type |-> "ValueError", line |-> 189]
                 /\ UNCHANGED <<calls, res1, res2>>
    /\ UNCHANGED <<method, nsets, y_MVA, npara, model_a, model_b, model_c,
                   uncond, cond, prior, outfile, ff, ipara>>

(***************************************************************************)
(* The lines of the report.  str() of a numpy float and of a numpy bool.   *)
(***************************************************************************)
SobolHeader == "# Si    STi \n"
PawnHeader == "# PAWN    Influential \n"

StrFloat(v) == IF v = 0 THEN "0.0" ELSE "1.0"
StrBool(b) == IF b THEN "True" ELSE "False"

Header(name) == IF name = "sobol" THEN SobolHeader ELSE PawnHeader

DataLine(name, a, b) ==
    IF name = "sobol"
    THEN StrFloat(a) \o " " \o StrFloat(b) \o " \n"
    ELSE StrFloat(a) \o " " \o StrBool(b) \o " \n"

(***************************************************************************)
(* Lines 166 / 183: the header line.                                       *)
(***************************************************************************)
WriteHeader ==
    /\ pc = "header"
    /\ outfile' = Append(outfile, Header(method.name))
    /\ ipara' = 0
    /\ pc' = "loop"
    /\ UNCHANGED <<method, nsets, y_MVA, npara, model_a, model_b, model_c,
                   uncond, cond, prior, ff, calls, res1, res2, err>>

(***************************************************************************)
(* Lines 167-168 / 184-185: one iteration of "for ipara in range(npara)".  *)
(* Here ipara counts the iterations done, so it is the 0-based index of    *)
(* the next one.  An index past the end of a result raises IndexError.     *)
(***************************************************************************)
WriteLine ==
    /\ pc = "loop"
    /\ ipara < npara
    /\ IF ipara + 1 <= Len(res1) /\ ipara + 1 <= Len(res2)
       THEN /\ outfile' = Append(outfile, DataLine(method.name,
                                                   res1[ipara + 1],
                                                   res2[ipara + 1]))
            /\ ipara' = ipara + 1
            /\ UNCHANGED <<pc, err>>
       ELSE /\ pc' = "error"
            /\ err' = [type |-> "IndexError",
                       line |-> IF method.name = "sobol" THEN 168 ELSE 185]
            /\ UNCHANGED <<outfile, ipara>>
    /\ UNCHANGED <<method, nsets, y_MVA, npara, model_a, model_b, model_c,
                   uncond, cond, prior, ff, calls, res1, res2>>

(***************************************************************************)
(* Lines 191-192: range(npara) is exhausted, the file is closed.           *)
(***************************************************************************)
CloseOutfile ==
    /\ pc = "loop"
    /\ ipara >= npara
    /\ ff' = "closed"
    /\ pc' = "done"
    /\ UNCHANGED <<method, nsets, y_MVA, npara, model_a, model_b, model_c,
                   uncond, cond, prior, outfile, calls, res1, res2, ipara, err>>

Next ==
    \/ DeriveLayout
    \/ OpenOutfile
    \/ Estimate
    \/ WriteHeader
    \/ WriteLine
    \/ CloseOutfile

Spec == Init /\ [][Next]_vars

(***************************************************************************)
(* Properties.                                                             *)
(***************************************************************************)
SobolExact(L, n) == L - 2 * n >= 0 /\ (L - 2 * n) % n = 0
PawnExact(L, n, nf) == L - n >= 0 /\ (L - n) % (nf * n) = 0

WellFormed ==
    \/ method.name = "sobol" /\ SobolExact(Len(y_MVA), nsets)
    \/ method.name = "pawn" /\ PawnExact(Len(y_MVA), nsets, method.Nf)

LayoutErrorLines == {131, 141, 147}

\* The layout decoding has run and has raised nothing.
LayoutDone ==
    /\ pc # "decode"
    /\ ~(pc = "error" /\ err.line \in LayoutErrorLines)

RECURSIVE Flatten(_)
Flatten(rows) ==
    IF rows = <<>> THEN <<>> ELSE Head(rows) \o Flatten(Tail(rows))

Count(v, x) == Cardinality({k \in DOMAIN v : v[k] = x})

IsRamp == y_MVA = Ramp(Len(y_MVA))

\* C1: with method sobol and a length L such that L - 2*nsets is a
\* nonnegative multiple of nsets, the decoding succeeds with
\* (npara + 2) * nsets = L, model_a[s] = y[s], model_b[s] = y[nsets + s] and
\* model_c[i][s] = y[2*nsets + i*nsets + s] (0-based i and s).
SobolLayoutDecoding ==
    (method.name = "sobol" /\ pc # "decode"
       /\ SobolExact(Len(y_MVA), nsets)) =>
        /\ LayoutDone
        /\ (npara + 2) * nsets = Len(y_MVA)
        /\ Len(model_a) = nsets
        /\ Len(model_b) = nsets
        /\ \A s \in 0..(nsets - 1) :
              /\ model_a[s + 1] = y_MVA[s + 1]
              /\ model_b[s + 1] = y_MVA[nsets + s + 1]
        /\ Len(model_c) = npara
        /\ \A i \in 0..(npara - 1) :
              /\ Len(model_c[i + 1]) = nsets
              /\ \A s \in 0..(nsets - 1) :
                    model_c[i + 1][s + 1] = y_MVA[2 * nsets + i * nsets + s + 1]

SobolLayoutDecoded ==
    /\ method.name = "sobol"
    /\ pc = "open"
    /\ IsRamp
    /\ nsets >= 2
    /\ npara >= 2
    /\ model_c[2][1] = 2 * nsets + nsets + 1

\* C2: with method pawn and a length L such that L - nsets is a nonnegative
\* multiple of nf*nsets, the decoding succeeds with
\* npara * nf * nsets = L - nsets, uncond[s] = y[s] and a conditional tensor
\* of shape nf x npara x nsets with
\* cond[r][p][s] = y[nsets + (p*nf + r)*nsets + s] (0-based r, p and s).
PawnLayoutDecoding ==
    (method.name = "pawn" /\ pc # "decode"
       /\ PawnExact(Len(y_MVA), nsets, method.Nf)) =>
        /\ LayoutDone
        /\ npara * method.Nf * nsets = Len(y_MVA) - nsets
        /\ Len(uncond) = nsets
        /\ \A s \in 0..(nsets - 1) : uncond[s + 1] = y_MVA[s + 1]
        /\ Len(cond) = method.Nf
        /\ \A r \in 0..(method.Nf - 1) :
              /\ Len(cond[r + 1]) = npara
              /\ \A p \in 0..(npara - 1) :
                    /\ Len(cond[r + 1][p + 1]) = nsets
                    /\ \A s \in 0..(nsets - 1) :
                          cond[r + 1][p + 1][s + 1] =
                              y_MVA[nsets + (p * method.Nf + r) * nsets + s + 1]

PawnLayoutDecoded ==
    /\ method.name = "pawn"
    /\ pc = "open"
    /\ IsRamp
    /\ nsets >= 2
    /\ method.Nf >= 2
    /\ npara >= 2
    /\ cond[2][1][1] = nsets + nsets + 1

\* C3: with method sobol, a length L such that L - 2*nsets is not a
\* nonnegative multiple of nsets makes the layout decoding fail with an
\* error.
SobolLayoutRejection ==
    (method.name = "sobol" /\ pc # "decode"
       /\ ~SobolExact(Len(y_MVA), nsets)) =>
        (pc = "error" /\ err.line = 131)

\* C4: with method pawn, a length L such that L - nsets is not a nonnegative
\* multiple of nf*nsets makes the layout decoding fail with an error.
PawnLayoutRejection ==
    (method.name = "pawn" /\ pc # "decode"
       /\ ~PawnExact(Len(y_MVA), nsets, method.Nf)) =>
        (pc = "error" /\ err.line = 141)

\* C5: no run whose length L breaks the exact-division invariant of its
\* method reaches a call of sobol_index or pawn_index.
NoEstimatorOnMalformedLength ==
    (calls # <<>>) => WellFormed

\* C6: with method sobol and a length that satisfies the exact-division
\* invariant, model_a, then model_b, then the rows of model_c in row order
\* concatenate to y_MVA.
SobolRoundTrip ==
    (method.name = "sobol" /\ pc # "decode"
       /\ SobolExact(Len(y_MVA), nsets)) =>
        /\ LayoutDone
        /\ model_a \o model_b \o Flatten(model_c) = y_MVA

SobolRoundTripDone ==
    /\ method.name = "sobol"
    /\ pc = "done"
    /\ IsRamp
    /\ nsets >= 2
    /\ npara >= 1
    /\ Len(y_MVA) >= 6

\* The elements of the sample groups of the run, in group order.
GroupElements ==
    IF method.name = "sobol"
    THEN model_a \o model_b \o Flatten(model_c)
    ELSE uncond \o Flatten(Flatten(cond))

\* C7: whenever the layout decoding completes without error, the sample
\* groups hold Len(y_MVA) elements, every element of y_MVA as often as y_MVA
\* holds it (for the ramp: every index exactly once), and the slice bound of
\* line 141 is not below the end of the vector.
ElementCount ==
    (LayoutDone /\ method.name \in {"sobol", "pawn"}) =>
        /\ Len(GroupElements) = Len(y_MVA)
        /\ \A k \in DOMAIN y_MVA :
              Count(GroupElements, y_MVA[k]) = Count(y_MVA, y_MVA[k])
        /\ method.name = "pawn" =>
              CondStop(nsets, method.Nf, npara) >= Len(y_MVA)

ElementCountDecoded ==
    /\ LayoutDone
    /\ method.name = "pawn"
    /\ IsRamp
    /\ npara >= 1
    /\ Len(y_MVA) = nsets + method.Nf * nsets * npara
    /\ Count(GroupElements, Len(y_MVA)) = 1

\* C8: in every run that ends with an error, the output file is what it was
\* before the run: no header line, no data line, not emptied.
NoPartialResults ==
    (pc = "error") => (outfile = prior)

UnsupportedMethodAborts ==
    /\ (method.name \notin {"sobol", "pawn"}) =>
          /\ pc \in {"decode", "error"}
          /\ (pc = "error") => (err = [type |-> "ValueError", line |-> 147])
          /\ outfile = prior
          /\ ff = "closed"
          /\ calls = <<>>
    /\ (pc = "estimate") => (EstimateBranch(method.name) # "else")
    /\ err.line # 189

\* C10: a run with a method tag other than sobol and pawn ends at line 147,
\* before the output file is opened and before any estimator is called; the
\* estimation dispatch is only reached with tag sobol or pawn, its fallback
\* at line 189 is never taken, and no step changes the tag.
UnsupportedMethod ==
    /\ []UnsupportedMethodAborts
    /\ [][method' = method]_vars

UnsupportedMethodRejected ==
    /\ method.name = "morris"
    /\ pc = "error"
    /\ err.line = 147
    /\ prior = OldContent

====
